---- MODULE Spec2Model ----
(***************************************************************************)
(* MancalaMinimax: the move engine `move`, the alpha-beta search           *)
(* `minimax`, the threaded root call `minimaxRoot` / `minimaxThreadCall`,  *)
(* the agents (`Agent::Move`) and the game loop (`Environment::start`) of  *)
(* src/MancalaSolver/MancalaSolver.cpp.                                    *)
(*                                                                         *)
(* A board is a function 0..13 -> 0..255 (uint8_t position[14]).  player = *)
(* TRUE is the side owning fields 0..5 and the store 6 ("Player",          *)
(* Side-A); player = FALSE owns 7..12 and the store 13 ("Computer",        *)
(* Side-B).  uint8_t arithmetic is kept modulo 256, int8_t results are     *)
(* converted with ToInt8.                                                  *)
(***************************************************************************)
EXTENDS Integers, FiniteSets, Sequences, TLC

POSITION_LENGTH == 14
PLAYER_SCORE == 6
COMPUTER_SCORE == 13

\* Bounds of the model (not program constants).
MaxStones == 2
MaxDepth == 3
MaxInput == 6

Fields == 0 .. (POSITION_LENGTH - 1)
PlayerFields == 0 .. 5
ComputerFields == 7 .. 12
Workers == 0 .. 5

\* Conversion of an int to uint8_t / int8_t (two's complement, 8 bits).
ToUInt8(x) == x % 256
ToInt8(x) == ((x + 128) % 256) - 128

RECURSIVE SumOver(_, _)
SumOver(position, S) ==
    IF S = {} THEN 0
    ELSE LET f == CHOOSE x \in S : TRUE
         IN position[f] + SumOver(position, S \ {f})

\* All stones on the board, as the int `count` of Environment::start.
Total(position) == SumOver(position, Fields)

\* The macros of lines 23, 24 and 26 (little-endian: the low 48 bits of the
\* 64-bit load are the six fields starting at the pointer; the two bytes the
\* load reads beyond them are masked off).
PlayerEmpty(position) == \A f \in PlayerFields : position[f] = 0
ComputerEmpty(position) == \A f \in ComputerFields : position[f] = 0
Evaluation(position) == position[COMPUTER_SCORE] - position[PLAYER_SCORE]

(***************************************************************************)
(* move, lines 49-93.                                                      *)
(***************************************************************************)
\* A plausible slip: the skipped store uses up one of the stones to sow.
SowStepNoExtend(s, player) ==
    LET sel == ToUInt8(s.selection + 1) % POSITION_LENGTH
    IN IF sel = (IF player THEN COMPUTER_SCORE ELSE PLAYER_SCORE)
       THEN [position |-> s.position, selection |-> sel,
             count |-> ToUInt8(s.count - 1)]
       ELSE [position |-> [s.position EXCEPT ![sel] = ToUInt8(@ + 1)],
             selection |-> sel, count |-> ToUInt8(s.count - 1)]

\* Lines 57-63 and the loop's count--: one iteration of the sowing loop on
\* its variables s = [position, selection, count].  `count` is an unsigned
\* char and `selection` a uint8_t, so both are taken modulo 256.
SowStep(s, player) ==
    LET sel == ToUInt8(s.selection + 1) % POSITION_LENGTH
    IN IF sel = (IF player THEN COMPUTER_SCORE ELSE PLAYER_SCORE)
       THEN [position |-> s.position, selection |-> sel,
             count |-> ToUInt8(ToUInt8(s.count + 1) - 1)]
       ELSE [position |-> [s.position EXCEPT ![sel] = ToUInt8(@ + 1)],
             selection |-> sel, count |-> ToUInt8(s.count - 1)]

\* Up to n iterations of the loop of lines 55-64, which ends when count is
\* 0.  The halving only keeps the evaluation shallow.
RECURSIVE SowLoop(_, _, _)
SowLoop(s, player, n) ==
    IF s.count = 0 \/ n = 0 THEN s
    ELSE IF n = 1 THEN SowStep(s, player)
    ELSE LET half == SowLoop(s, player, n \div 2)
         IN SowLoop(half, player, n - (n \div 2))

\* The whole loop: a count below 256 is used up, with the skipped fields,
\* in fewer than 512 iterations.
Sow(position, selection, count, player) ==
    SowLoop([position |-> position, selection |-> selection, count |-> count],
            player, 512)

\* Lines 75-77 and 87-89: the capture into `store`.
Capture(position, selection, store) ==
    LET mirror == POSITION_LENGTH - selection - 2
    IN [position EXCEPT ![selection] = 0,
                        ![store] = ToUInt8(@ + position[mirror] + 1),
                        ![mirror] = 0]

\* A plausible slip: the capture forgets the capturing stone.
moveNoPlusOne(position, selection, player) ==
    LET s == Sow([position EXCEPT ![selection] = 0], selection,
                 position[selection], player)
        p == s.position
        l == s.selection
        m == POSITION_LENGTH - l - 2
        cap(store) == [p EXCEPT ![l] = 0, ![store] = ToUInt8(@ + p[m]), ![m] = 0]
    IN IF player
       THEN IF l = PLAYER_SCORE THEN [position |-> p, next |-> TRUE]
            ELSE IF 6 > l /\ p[l] = 1 /\ p[m] > 0
                 THEN [position |-> cap(PLAYER_SCORE), next |-> FALSE]
                 ELSE [position |-> p, next |-> FALSE]
       ELSE IF l = COMPUTER_SCORE THEN [position |-> p, next |-> FALSE]
            ELSE IF l > 6 /\ p[l] = 1 /\ p[m] > 0
                 THEN [position |-> cap(COMPUTER_SCORE), next |-> TRUE]
                 ELSE [position |-> p, next |-> TRUE]

\* A plausible slip: the capture takes the field at 13 - selection.
moveMirror13(position, selection, player) ==
    LET s == Sow([position EXCEPT ![selection] = 0], selection,
                 position[selection], player)
        p == s.position
        l == s.selection
        m == POSITION_LENGTH - l - 1
        cap(store) == [p EXCEPT ![l] = 0, ![store] = ToUInt8(@ + p[m] + 1), ![m] = 0]
    IN IF player
       THEN IF l = PLAYER_SCORE THEN [position |-> p, next |-> TRUE]
            ELSE IF 6 > l /\ p[l] = 1 /\ p[m] > 0
                 THEN [position |-> cap(PLAYER_SCORE), next |-> FALSE]
                 ELSE [position |-> p, next |-> FALSE]
       ELSE IF l = COMPUTER_SCORE THEN [position |-> p, next |-> FALSE]
            ELSE IF l > 6 /\ p[l] = 1 /\ p[m] > 0
                 THEN [position |-> cap(COMPUTER_SCORE), next |-> TRUE]
                 ELSE [position |-> p, next |-> TRUE]

\* A plausible slip: the capturing side keeps the turn.
moveKeepsTurn(position, selection, player) ==
    LET s == Sow([position EXCEPT ![selection] = 0], selection,
                 position[selection], player)
        p == s.position
        l == s.selection
        m == POSITION_LENGTH - l - 2
    IN IF player
       THEN IF l = PLAYER_SCORE THEN [position |-> p, next |-> TRUE]
            ELSE IF 6 > l /\ p[l] = 1 /\ p[m] > 0
                 THEN [position |-> Capture(p, l, PLAYER_SCORE), next |-> TRUE]
                 ELSE [position |-> p, next |-> FALSE]
       ELSE IF l = COMPUTER_SCORE THEN [position |-> p, next |-> FALSE]
            ELSE IF l > 6 /\ p[l] = 1 /\ p[m] > 0
                 THEN [position |-> Capture(p, l, COMPUTER_SCORE), next |-> FALSE]
                 ELSE [position |-> p, next |-> TRUE]

\* move: the board it leaves in `position` and the bool it returns (`next`).
move(position, selection, player) ==
    LET s == Sow([position EXCEPT ![selection] = 0], selection,
                 position[selection], player)
        p == s.position
        l == s.selection
        m == POSITION_LENGTH - l - 2
    IN IF player
       THEN IF l = PLAYER_SCORE THEN [position |-> p, next |-> TRUE]
            ELSE IF 6 > l /\ p[l] = 1 /\ p[m] > 0
                 THEN [position |-> Capture(p, l, PLAYER_SCORE), next |-> FALSE]
                 ELSE [position |-> p, next |-> FALSE]
       ELSE IF l = COMPUTER_SCORE THEN [position |-> p, next |-> FALSE]
            ELSE IF l > 6 /\ p[l] = 1 /\ p[m] > 0
                 THEN [position |-> Capture(p, l, COMPUTER_SCORE), next |-> TRUE]
                 ELSE [position |-> p, next |-> TRUE]

(***************************************************************************)
(* minimax, lines 102-168.                                                 *)
(***************************************************************************)
\* A plausible slip: the sweep's loop runs up to the store itself (i <= 13,
\* i <= 6) and adds the store to the store.
TerminalSweepCountsStore(position) ==
    IF PlayerEmpty(position)
    THEN [position EXCEPT ![COMPUTER_SCORE] =
              ToUInt8(2 * ToUInt8(@ + SumOver(position, ComputerFields)))]
    ELSE IF ComputerEmpty(position)
    THEN [position EXCEPT ![PLAYER_SCORE] =
              ToUInt8(2 * ToUInt8(@ + SumOver(position, PlayerFields)))]
    ELSE position

\* Lines 106-117: the board as the terminal checks leave it (the swept
\* fields are added to the store and are not cleared).
TerminalSweep(position) ==
    IF PlayerEmpty(position)
    THEN [position EXCEPT ![COMPUTER_SCORE] =
              ToUInt8(@ + SumOver(position, ComputerFields))]
    ELSE IF ComputerEmpty(position)
    THEN [position EXCEPT ![PLAYER_SCORE] =
              ToUInt8(@ + SumOver(position, PlayerFields))]
    ELSE position

Terminal(position) == PlayerEmpty(position) \/ ComputerEmpty(position)

Min(a, b) == IF b < a THEN b ELSE a
Max(a, b) == IF a < b THEN b ELSE a

RECURSIVE minimax(_, _, _, _, _)
RECURSIVE MinLoop(_, _, _, _, _, _)
RECURSIVE MaxLoop(_, _, _, _, _, _)
RECURSIVE MinLoopCutsOnBeta(_, _, _, _, _, _)

\* A plausible slip: the minimizing side's cut-off compares with beta.
MinLoopCutsOnBeta(position, i, depth, alpha, beta, ScoreReference) ==
    IF i >= 6 THEN ScoreReference
    ELSE IF position[i] = 0
    THEN MinLoopCutsOnBeta(position, i + 1, depth, alpha, beta, ScoreReference)
    ELSE LET m == move(position, i, TRUE)
             ref == Min(ScoreReference,
                        minimax(m.position, m.next, ToUInt8(depth - 1), alpha, beta))
         IN IF ref <= beta THEN ref
            ELSE MinLoopCutsOnBeta(position, i + 1, depth, alpha, Min(ref, beta), ref)

\* Lines 131-146: the loop of the minimizing side from field i on.
MinLoop(position, i, depth, alpha, beta, ScoreReference) ==
    IF i >= 6 THEN ScoreReference
    ELSE IF position[i] = 0
    THEN MinLoop(position, i + 1, depth, alpha, beta, ScoreReference)
    ELSE LET m == move(position, i, TRUE)
             ref == Min(ScoreReference,
                        minimax(m.position, m.next, ToUInt8(depth - 1), alpha, beta))
         IN IF ref <= alpha THEN ref
            ELSE MinLoop(position, i + 1, depth, alpha, Min(ref, beta), ref)

\* Lines 152-163: the loop of the maximizing side from field i on.
MaxLoop(position, i, depth, alpha, beta, ScoreReference) ==
    IF i >= 13 THEN ScoreReference
    ELSE IF position[i] = 0
    THEN MaxLoop(position, i + 1, depth, alpha, beta, ScoreReference)
    ELSE LET m == move(position, i, FALSE)
             ref == Max(ScoreReference,
                        minimax(m.position, m.next, ToUInt8(depth - 1), alpha, beta))
         IN IF ref >= beta THEN ref
            ELSE MaxLoop(position, i + 1, depth, Max(ref, alpha), beta, ref)

\* A plausible slip: the depth is tested before the terminal checks.
minimaxDepthFirst(position, player, depth, alpha, beta) ==
    IF depth = 0 THEN ToInt8(Evaluation(position))
    ELSE IF Terminal(position) THEN ToInt8(Evaluation(TerminalSweep(position)))
    ELSE IF player THEN MinLoop(position, 0, depth, alpha, beta, 127)
    ELSE MaxLoop(position, 7, depth, alpha, beta, -128)

\* Lines 102-168: the score minimax returns.
minimax(position, player, depth, alpha, beta) ==
    IF Terminal(position) THEN ToInt8(Evaluation(TerminalSweep(position)))
    ELSE IF depth = 0 THEN ToInt8(Evaluation(position))
    ELSE IF player THEN MinLoop(position, 0, depth, alpha, beta, 127)
    ELSE MaxLoop(position, 7, depth, alpha, beta, -128)


(***************************************************************************)
(* The state of the program.                                               *)
(***************************************************************************)
VARIABLES
    position,      \* Environment::position, the board of the game
    turn,          \* Environment::turn, TRUE: agent1 (fields 0..5) moves
    agent1,        \* Environment::agent1, [type, depth]
    agent2,        \* Environment::agent2
    count,         \* the int `count` of Environment::start
    warning,       \* the "[WARNING]: Too many stones" line was printed
    pc,            \* where Environment::start / Agent::Move / minimaxRoot is
    i,             \* the loop index of minimaxRoot's three loops
    wstate,        \* per worker thread: "none", "spawned", "copied", "done"
    PositionCopy,  \* per worker thread: minimaxThreadCall's PositionCopy
    searchDepth,   \* per worker thread: the depth it handed to minimax
    results,       \* minimaxRoot's results[6]: [ptr, set, val]
    score,         \* minimaxRoot's score
    bestIndex,     \* minimaxRoot's bestIndex, Unassigned until written
    cacheResult,   \* Agent::Move's cacheResult
    access,        \* the reads and writes of boards during minimaxRoot
    last           \* the arguments of the latest call of move

vars == <<position, turn, agent1, agent2, count, warning, pc, i, wstate,
          PositionCopy, searchDepth, results, score, bestIndex, cacheResult,
          access, last>>

env == <<agent1, agent2, count, warning>>
root == <<i, wstate, PositionCopy, searchDepth, results, score, bestIndex,
          cacheResult, access>>

\* An access of a board by a thread: minimaxRoot's thread reads the caller's
\* `position` (line 189); worker w reads it through the pointer it was given
\* (line 177) and reads and writes its own PositionCopy (lines 177-178).
RootRead ==
    [thread |-> "root", id |-> 0, board |-> "position", owner |-> 0, write |-> FALSE]
WorkerAccess(w, board, write) ==
    [thread |-> "worker", id |-> w, board |-> board,
     owner |-> (IF board = "position" THEN 0 ELSE w), write |-> write]

\* Line 205: `uint8_t bestIndex;` has no initializer.
Unassigned == -1

EmptyBoard == [f \in Fields |-> 0]
FromTuple(t) == [f \in Fields |-> t[f + 1]]

\* results[i]: nullptr (line 191), or a cell from `new int8_t` (line 194)
\* that holds no value until the worker stores one (line 178).
Nullptr == [ptr |-> FALSE, set |-> FALSE, val |-> 0]
NewCell == [ptr |-> TRUE, set |-> FALSE, val |-> 0]
Cell(v) == [ptr |-> TRUE, set |-> TRUE, val |-> v]

NoMove == [called |-> FALSE, position |-> EmptyBoard, selection |-> 0, player |-> TRUE]
Call(b, s, p) == [called |-> TRUE, position |-> b, selection |-> s, player |-> p]

\* The locals of minimaxRoot before it is entered and after it has returned.
RootIdle ==
    /\ i = 0
    /\ wstate = [w \in Workers |-> "none"]
    /\ PositionCopy = [w \in Workers |-> EmptyBoard]
    /\ searchDepth = [w \in Workers |-> 0]
    /\ results = [w \in Workers |-> Nullptr]
    /\ score = 0
    /\ bestIndex = Unassigned
    /\ cacheResult = 0
    /\ access = {}

\* Lines 276-282: the agents.  Agent(type) has depth 12.
Player == [type |-> "player", depth |-> 12]
Random == [type |-> "random", depth |-> 12]
Computer(d) == [type |-> "computer", depth |-> d]
Agents == {Player, Random} \cup {Computer(d) : d \in 0 .. MaxDepth}

\* Boards of at most n stones.
RECURSIVE BoardsUpTo(_)
BoardsUpTo(n) ==
    IF n = 0 THEN {EmptyBoard}
    ELSE LET B == BoardsUpTo(n - 1)
         IN B \cup {[b EXCEPT ![f] = @ + 1] : b \in B, f \in Fields}

\* Start boards that make the rarer cases of the rules happen: a move that
\* passes the opponent's store, two root moves of equal score for either
\* side, and a board of 127 stones.
LapBoard == FromTuple(<<0, 0, 0, 0, 0, 8,  0,  0, 0, 0, 0, 0, 1,  0>>)
TieBoardPlayer == FromTuple(<<1, 1, 0, 0, 0, 0,  0,  0, 0, 0, 0, 0, 1,  0>>)
TieBoardComputer == FromTuple(<<0, 0, 0, 0, 0, 1,  0,  1, 1, 0, 0, 0, 0,  0>>)
HeavyBoard == FromTuple(<<1, 0, 0, 0, 0, 0,  0,  0, 0, 0, 1, 0, 0,  125>>)

\* The pairs of agents: a human player first against any agent (as main()
\* sets it up), or any agent first against a random one.
AgentPairs ==
    [agent1 : {Player}, agent2 : Agents] \cup [agent1 : Agents, agent2 : {Random}]

Configurations ==
    {[position |-> b, turn |-> t, agent1 |-> a.agent1, agent2 |-> a.agent2] :
        b \in BoardsUpTo(MaxStones), t \in BOOLEAN, a \in AgentPairs}
    \cup [position : {LapBoard, TieBoardPlayer, TieBoardComputer, HeavyBoard},
          turn : BOOLEAN,
          agent1 : {Player, Computer(MaxDepth)},
          agent2 : {Random, Computer(MaxDepth)}]

\* The Environment as constructed (lines 343-353), before start() runs.
Init ==
    /\ \E c \in Configurations :
          /\ position = c.position
          /\ turn = c.turn
          /\ agent1 = c.agent1
          /\ agent2 = c.agent2
    /\ count = 0
    /\ warning = FALSE
    /\ pc = "start"
    /\ RootIdle
    /\ last = NoMove

(***************************************************************************)
(* Environment::start, lines 387-445.                                      *)
(***************************************************************************)
\* Lines 393-399: count the stones, warn above 127, go on to the loop.
Start ==
    /\ pc = "start"
    /\ count' = Total(position)
    /\ warning' = (Total(position) > 127)
    /\ pc' = "loop"
    /\ UNCHANGED <<position, turn, agent1, agent2, root, last>>

Agent == IF turn THEN agent1 ELSE agent2

\* Line 400: the loop's test; lines 403-412 enter Agent::Move.
LoopEnter ==
    /\ pc = "loop"
    /\ ~PlayerEmpty(position) /\ ~ComputerEmpty(position)
    /\ pc' = "move"
    /\ UNCHANGED <<position, turn, env, root, last>>

LoopExit ==
    /\ pc = "loop"
    /\ PlayerEmpty(position) \/ ComputerEmpty(position)
    /\ pc' = "sweep"
    /\ UNCHANGED <<position, turn, env, root, last>>

\* Lines 419-435: the two sweeps after the loop, the second on the board the
\* first one left.
\* A plausible slip: the swept fields are not cleared (as in minimax).
SweepComputerNoClear(b) ==
    IF PlayerEmpty(b)
    THEN [b EXCEPT ![COMPUTER_SCORE] = ToUInt8(@ + SumOver(b, ComputerFields))]
    ELSE b

SweepComputer(b) ==
    IF PlayerEmpty(b)
    THEN [f \in Fields |->
             IF f = COMPUTER_SCORE
             THEN ToUInt8(b[COMPUTER_SCORE] + SumOver(b, ComputerFields))
             ELSE IF f \in ComputerFields THEN 0 ELSE b[f]]
    ELSE b

SweepPlayer(b) ==
    IF ComputerEmpty(b)
    THEN [f \in Fields |->
             IF f = PLAYER_SCORE
             THEN ToUInt8(b[PLAYER_SCORE] + SumOver(b, PlayerFields))
             ELSE IF f \in PlayerFields THEN 0 ELSE b[f]]
    ELSE b

FinalSweep ==
    /\ pc = "sweep"
    /\ position' = SweepPlayer(SweepComputer(position))
    /\ pc' = "done"
    /\ UNCHANGED <<turn, env, root, last>>

(***************************************************************************)
(* Agent::Move, lines 284-320.                                             *)
(***************************************************************************)
\* A plausible slip: move is handed a copy of the board, the board of the
\* game stays as it is.
ApplyMoveOnCopy(selection) ==
    LET m == move(position, selection, turn)
    IN /\ position' = position
       /\ turn' = m.next
       /\ last' = Call(position, selection, turn)

\* The call `turn = move(board, selection, turn)` of lines 291, 302, 315.
ApplyMove(selection) ==
    LET m == move(position, selection, turn)
    IN /\ position' = m.position
       /\ turn' = m.next
       /\ last' = Call(position, selection, turn)

\* Lines 294-305: the human player; inputMove is what stoi gave, as uint8_t.
HumanMove ==
    /\ pc = "move"
    /\ Agent.type = "player"
    /\ \E inputMove \in 0 .. MaxInput :
          LET selection == IF turn THEN inputMove ELSE 12 - inputMove
          IN IF 0 <= inputMove /\ inputMove < 6 /\ position[selection] > 0
             THEN ApplyMove(selection)
             ELSE UNCHANGED <<position, turn>> /\ last' = NoMove
    /\ pc' = "loop"
    /\ UNCHANGED <<env, root>>

\* Lines 307-319: the random agent draws until the field holds stones.
RandomMove ==
    /\ pc = "move"
    /\ Agent.type \notin {"computer", "player"}
    /\ \E selection \in 0 .. 5 :
          /\ position[IF turn THEN selection ELSE 12 - selection] > 0
          /\ ApplyMove(IF turn THEN selection ELSE 12 - selection)
    /\ pc' = "loop"
    /\ UNCHANGED <<env, root>>

(***************************************************************************)
(* minimaxRoot, lines 182-233, and its worker threads, lines 174-179.      *)
(***************************************************************************)
\* Line 289: the computer agent calls minimaxRoot(board, turn, depth).
ComputerMove ==
    /\ pc = "move"
    /\ Agent.type = "computer"
    /\ pc' = "spawn"
    /\ i' = 0
    /\ UNCHANGED <<position, turn, env, wstate, PositionCopy, searchDepth,
                   results, score, bestIndex, cacheResult, access, last>>

\* The field worker w searches first (line 195: player ? i : i + 7).
FirstMove(w) == IF turn THEN w ELSE w + 7

\* Lines 187-198, one iteration: a thread for a field that holds stones.
Spawn ==
    /\ pc = "spawn"
    /\ IF position[FirstMove(i)] = 0
       THEN /\ results' = [results EXCEPT ![i] = Nullptr]
            /\ UNCHANGED wstate
       ELSE /\ results' = [results EXCEPT ![i] = NewCell]
            /\ wstate' = [wstate EXCEPT ![i] = "spawned"]
    /\ IF i < 5 THEN i' = i + 1 /\ pc' = "spawn"
                ELSE i' = 0 /\ pc' = "join"
    /\ access' = access \cup {RootRead}
    /\ UNCHANGED <<position, turn, env, PositionCopy, searchDepth, score,
                   bestIndex, cacheResult, last>>

\* A plausible slip: memcpy's arguments are exchanged, the thread's array is
\* copied over the caller's board.
WorkerCopySwapped(w) ==
    /\ wstate[w] = "spawned"
    /\ position' = PositionCopy[w]
    /\ wstate' = [wstate EXCEPT ![w] = "copied"]
    /\ access' = access \cup {WorkerAccess(w, "PositionCopy", FALSE),
                              WorkerAccess(w, "position", TRUE)}
    /\ UNCHANGED <<PositionCopy, turn, env, pc, i, searchDepth, results, score,
                   bestIndex, cacheResult, last>>

\* Lines 176-177: the thread copies the caller's board.
WorkerCopy(w) ==
    /\ wstate[w] = "spawned"
    /\ PositionCopy' = [PositionCopy EXCEPT ![w] = position]
    /\ wstate' = [wstate EXCEPT ![w] = "copied"]
    /\ access' = access \cup {WorkerAccess(w, "position", FALSE),
                              WorkerAccess(w, "PositionCopy", TRUE)}
    /\ UNCHANGED <<position, turn, env, pc, i, searchDepth, results, score,
                   bestIndex, cacheResult, last>>

\* A plausible slip: the thread searches on the caller's board.
WorkerSearchShared(w) ==
    /\ wstate[w] = "copied"
    /\ LET m == move(position, FirstMove(w), turn)
           depth == ToUInt8(Agent.depth - 1)
       IN /\ searchDepth' = [searchDepth EXCEPT ![w] = depth]
          /\ results' = [results EXCEPT
                 ![w] = Cell(minimax(m.position, m.next, depth, -128, 127))]
          /\ position' = TerminalSweep(m.position)
    /\ wstate' = [wstate EXCEPT ![w] = "done"]
    /\ access' = access \cup {WorkerAccess(w, "position", FALSE),
                              WorkerAccess(w, "position", TRUE)}
    /\ UNCHANGED <<PositionCopy, turn, env, pc, i, score, bestIndex, cacheResult, last>>

\* Line 178: the first move on the copy, the search below it with the full
\* window, the score stored through `target`.  depth - 1 is converted to the
\* uint8_t parameter of minimax.
WorkerSearch(w) ==
    /\ wstate[w] = "copied"
    /\ LET m == move(PositionCopy[w], FirstMove(w), turn)
           depth == ToUInt8(Agent.depth - 1)
       IN /\ searchDepth' = [searchDepth EXCEPT ![w] = depth]
          /\ results' = [results EXCEPT
                 ![w] = Cell(minimax(m.position, m.next, depth, -128, 127))]
          /\ PositionCopy' = [PositionCopy EXCEPT ![w] = TerminalSweep(m.position)]
    /\ wstate' = [wstate EXCEPT ![w] = "done"]
    /\ access' = access \cup {WorkerAccess(w, "PositionCopy", FALSE),
                              WorkerAccess(w, "PositionCopy", TRUE)}
    /\ UNCHANGED <<position, turn, env, pc, i, score, bestIndex, cacheResult, last>>

\* A plausible slip: the join loop does not wait for the thread.
JoinNoWait ==
    /\ pc = "join"
    /\ IF i < 5
       THEN /\ i' = i + 1 /\ pc' = "join"
            /\ UNCHANGED <<score, bestIndex>>
       ELSE /\ i' = 0 /\ pc' = "scan"
            /\ score' = (IF turn THEN 127 ELSE -128)
            /\ bestIndex' = Unassigned
    /\ UNCHANGED <<position, turn, env, wstate, PositionCopy, searchDepth,
                   results, cacheResult, access, last>>

\* Lines 200-202, one iteration: join() returns once the thread has ended.
\* After the last one, lines 204-205 declare score and bestIndex.
Join ==
    /\ pc = "join"
    /\ results[i].ptr => wstate[i] = "done"
    /\ IF i < 5
       THEN /\ i' = i + 1 /\ pc' = "join"
            /\ UNCHANGED <<score, bestIndex>>
       ELSE /\ i' = 0 /\ pc' = "scan"
            /\ score' = (IF turn THEN 127 ELSE -128)
            /\ bestIndex' = Unassigned
    /\ UNCHANGED <<position, turn, env, wstate, PositionCopy, searchDepth,
                   results, cacheResult, access, last>>

\* What reading *results[w] gives: the stored score, or any int8_t when the
\* cell has not been written.
ReadResult(w) == IF results[w].set THEN {results[w].val} ELSE -128 .. 127

\* Lines 207-221, one iteration of the scan of the results.
Scan ==
    /\ pc = "scan"
    /\ IF ~results[i].ptr
       THEN UNCHANGED <<score, bestIndex>>
       ELSE \E v \in ReadResult(i) :
               IF turn /\ v < score
               THEN score' = v /\ bestIndex' = i
               ELSE IF ~turn /\ v > score
               THEN score' = v /\ bestIndex' = i + 7
               ELSE UNCHANGED <<score, bestIndex>>
    /\ IF i < 5 THEN i' = i + 1 /\ pc' = "scan"
                ELSE i' = 0 /\ pc' = "return"
    /\ UNCHANGED <<position, turn, env, wstate, PositionCopy, searchDepth,
                   results, cacheResult, access, last>>

\* Lines 232 and 289: bestIndex is returned into cacheResult.  When no scan
\* iteration assigned it, the value read is indeterminate: any uint8_t.
Return ==
    /\ pc = "return"
    /\ cacheResult' \in (IF bestIndex = Unassigned THEN 0 .. 255 ELSE {bestIndex})
    /\ pc' = "apply"
    /\ UNCHANGED <<position, turn, env, i, wstate, PositionCopy, searchDepth,
                   results, score, bestIndex, access, last>>

\* minimaxRoot's locals are gone once Agent::Move has used its result.
RootReset ==
    /\ i' = 0
    /\ wstate' = [w \in Workers |-> "none"]
    /\ PositionCopy' = [w \in Workers |-> EmptyBoard]
    /\ searchDepth' = [w \in Workers |-> 0]
    /\ results' = [w \in Workers |-> Nullptr]
    /\ score' = 0
    /\ bestIndex' = Unassigned
    /\ cacheResult' = 0
    /\ access' = {}

\* Line 291: turn = move(board, cacheResult, turn), no check of cacheResult.
\* A run in which the indeterminate value of the unassigned bestIndex was
\* not a field of the side to move that holds stones is followed up to the
\* return of this call and no further.
ComputerApply ==
    /\ pc = "apply"
    /\ cacheResult \in Fields
    /\ ApplyMove(cacheResult)
    /\ pc' = (IF /\ bestIndex = Unassigned
                 /\ \/ cacheResult \notin (IF turn THEN PlayerFields ELSE ComputerFields)
                    \/ position[cacheResult] = 0
              THEN "undefined" ELSE "loop")
    /\ RootReset
    /\ UNCHANGED env

\* Line 291 with cacheResult beyond the 14 fields: move reads and writes
\* outside the board, the behaviour of the program is undefined from here.
ComputerApplyOutside ==
    /\ pc = "apply"
    /\ cacheResult \notin Fields
    /\ pc' = "undefined"
    /\ last' = NoMove
    /\ RootReset
    /\ UNCHANGED <<position, turn, env>>

Next ==
    \/ Start
    \/ LoopEnter
    \/ LoopExit
    \/ FinalSweep
    \/ HumanMove
    \/ RandomMove
    \/ ComputerMove
    \/ Spawn
    \/ \E w \in Workers : WorkerCopy(w)
    \/ \E w \in Workers : WorkerSearch(w)
    \/ Join
    \/ Scan
    \/ Return
    \/ ComputerApply
    \/ ComputerApplyOutside

Spec == Init /\ [][Next]_vars

TypeOK ==
    /\ position \in [Fields -> 0 .. 255]
    /\ turn \in BOOLEAN
    /\ pc \in {"start", "loop", "move", "spawn", "join", "scan", "return",
               "apply", "sweep", "done", "undefined"}
    /\ i \in Workers
    /\ score \in -128 .. 127
    /\ bestIndex \in {Unassigned} \cup Fields
    /\ cacheResult \in 0 .. 255

(***************************************************************************)
(* The first iteration of the game loop, from a wider set of boards: the   *)
(* boards above, and boards whose sowing laps the board once or more.      *)
(***************************************************************************)
\* The board with the two sides exchanged.
Flip(b) == [f \in Fields |-> b[(f + 7) % POSITION_LENGTH]]

FullLapBoard == FromTuple(<<0, 0, 13, 0, 0, 0,  0,  0, 0, 1, 2, 0, 0,  0>>)
DoubleLapBoard == FromTuple(<<14, 0, 0, 0, 0, 0,  0,  0, 0, 0, 0, 3, 0,  0>>)
NearLapBoard == FromTuple(<<0, 0, 0, 9, 0, 0,  2,  0, 0, 1, 0, 0, 0,  1>>)
BigPitBoard == FromTuple(<<0, 0, 0, 250, 0, 0,  0,  0, 0, 5, 0, 0, 0,  0>>)

\* Lines 334-340: the board of an Environment made without one.
OpeningBoard == FromTuple(<<4, 4, 4, 4, 4, 4,  0,  4, 4, 4, 4, 4, 4,  0>>)
\* Two fields of stones on either side.
PruneBoard == FromTuple(<<0, 0, 2, 0, 1, 0,  0,  0, 1, 0, 0, 2, 0,  0>>)

RuleBoards ==
    LET B == {LapBoard, FullLapBoard, DoubleLapBoard, NearLapBoard, BigPitBoard,
              TieBoardPlayer, HeavyBoard, PruneBoard}
    IN B \cup {Flip(b) : b \in B}

\* On the wider boards the searching agents look at least one move ahead, on
\* the opening board exactly one.
FirstMoveConfigurations ==
    [position : BoardsUpTo(MaxStones), turn : BOOLEAN,
     agent1 : {Player, Random}, agent2 : {Player, Random}]
    \cup {[position |-> b, turn |-> t, agent1 |-> a, agent2 |-> a] :
             b \in RuleBoards, t \in BOOLEAN,
             a \in {Player, Random} \cup {Computer(d) : d \in 1 .. MaxDepth}}
    \cup {[position |-> OpeningBoard, turn |-> t, agent1 |-> a, agent2 |-> a] :
             t \in BOOLEAN, a \in {Player, Random, Computer(1)}}

InitFirstMove ==
    /\ \E c \in FirstMoveConfigurations :
          /\ position = c.position
          /\ turn = c.turn
          /\ agent1 = c.agent1
          /\ agent2 = c.agent2
    /\ count = 0
    /\ warning = FALSE
    /\ pc = "start"
    /\ RootIdle
    /\ last = NoMove

\* Line 400, when no move has been played yet.
FirstLoopEnter == ~last.called /\ LoopEnter

NextFirstMove ==
    \/ Start
    \/ FirstLoopEnter
    \/ LoopExit
    \/ FinalSweep
    \/ HumanMove
    \/ RandomMove
    \/ ComputerMove
    \/ Spawn
    \/ \E w \in Workers : WorkerCopy(w)
    \/ \E w \in Workers : WorkerSearch(w)
    \/ Join
    \/ Scan
    \/ Return
    \/ ComputerApply
    \/ ComputerApplyOutside

SpecFirstMove == InitFirstMove /\ [][NextFirstMove]_vars

(***************************************************************************)
(* The games of Spec when the program keeps running: the thread of         *)
(* Environment::start and every thread that minimaxRoot started take       *)
(* their next step as long as they have one.                               *)
(***************************************************************************)
\* The thread of Environment::start has a next step unless the program has
\* ended or it waits in join() (line 202) for a thread that still runs.
MainRuns ==
    /\ pc \notin {"done", "undefined"}
    /\ pc = "join" => (results[i].ptr => wstate[i] = "done")

\* A step of that thread, told by pc and i alone: each of its steps changes
\* one of them, and no step of a worker thread does.
MainAdvances ==
    /\ MainRuns
    /\ pc' \in {"start", "loop", "move", "spawn", "join", "scan", "return",
                "apply", "sweep", "done", "undefined"}
    /\ i' \in Workers

\* The step by which the search of a worker thread returns, WorkerSearch(w),
\* told by the thread's state alone.
SearchReturns(w) == wstate[w] = "copied" /\ wstate' = [wstate EXCEPT ![w] = "done"]

\* Every thread that has a next step takes it.
SpecFair ==
    /\ Init /\ [][Next]_vars
    /\ WF_<<pc, i>>(MainAdvances)
    /\ \A w \in Workers : WF_vars(WorkerCopy(w)) /\ WF_wstate(SearchReturns(w))

(***************************************************************************)
(* The rules of the game, stated without the loop of move: the fields a    *)
(* side sows are a ring of 13, the 14 fields without the opponent's store. *)
(***************************************************************************)
OwnStore(player) == IF player THEN PLAYER_SCORE ELSE COMPUTER_SCORE
OwnFields(player) == IF player THEN PlayerFields ELSE ComputerFields

RingPos(player, f) == IF player THEN f ELSE (f + 7) % POSITION_LENGTH
RingField(player, r) == IF player THEN r ELSE (r + 7) % POSITION_LENGTH

\* The field the t-th stone of a move from `selection` goes to.
Target(player, selection, t) ==
    RingField(player, (RingPos(player, selection) + t) % 13)

\* How many of the c stones of the move go to field f.
Visits(player, selection, c, f) ==
    Cardinality({t \in 1 .. c : Target(player, selection, t) = f})

\* The latest call of move: its validity, its stones, its last field.
ValidCall(l) ==
    /\ l.called
    /\ l.selection \in OwnFields(l.player)
    /\ l.position[l.selection] > 0

Stones(l) == l.position[l.selection]
Landing(l) == Target(l.player, l.selection, Stones(l))
Sown(l, f) == Visits(l.player, l.selection, Stones(l), f)
PassesOpponentStore(l) == RingPos(l.player, l.selection) + Stones(l) >= 13

\* The call of move has returned and nothing else has touched the board.
JustMoved == last.called /\ pc \in {"loop", "undefined"}

\* C1: a valid move leaves the sum of the 14 counters as it was, and so the
\* board of a game played with valid moves always holds the stones counted
\* at its start.
C1_Conservation ==
    /\ (JustMoved /\ ValidCall(last)) => Total(position) = Total(last.position)
    /\ pc \in {"loop", "move", "spawn", "join", "scan", "return", "apply", "sweep"}
          => Total(position) = count

\* C1, witness: a valid move that passed the opponent's store and captured.
C1_Witness ==
    /\ JustMoved /\ ValidCall(last)
    /\ PassesOpponentStore(last)
    /\ position[OwnStore(last.player)] > last.position[OwnStore(last.player)] + 1
    /\ position[Landing(last)] = 0
    /\ Total(position) = Total(last.position)
    /\ Total(position) = count

\* The case of the capture claims: the last stone of a valid move goes to a
\* field of the mover that was empty before the move.
LandsOnEmptyOwnField(l) ==
    /\ ValidCall(l)
    /\ Landing(l) \in OwnFields(l.player)
    /\ l.position[Landing(l)] = 0

\* C2 as stated: the captured field is the one at 13 - landingIndex.
C2_Original ==
    (JustMoved /\ LandsOnEmptyOwnField(last) /\ last.position[13 - Landing(last)] > 0)
    => /\ position[OwnStore(last.player)] =
            last.position[OwnStore(last.player)] + last.position[13 - Landing(last)] + 1
       /\ position[Landing(last)] = 0
       /\ position[13 - Landing(last)] = 0

\* What a field holds when the sowing of the latest move is over.
AfterSowing(l, f) ==
    IF f = l.selection THEN Sown(l, f) ELSE l.position[f] + Sown(l, f)

\* C2, amended: when the last stone of a valid move is the only stone of
\* the move in a previously empty field of the mover, and the field at
\* 12 - landingIndex holds k > 0 stones once the sowing is over, the mover's
\* store ends k + 1 above what it held once the sowing was over, and the
\* landing field and the field at 12 - landingIndex hold 0.
C2_Capture ==
    (/\ JustMoved /\ LandsOnEmptyOwnField(last)
     /\ Sown(last, Landing(last)) = 1
     /\ AfterSowing(last, 12 - Landing(last)) > 0)
    => /\ position[OwnStore(last.player)] =
            AfterSowing(last, OwnStore(last.player))
            + AfterSowing(last, 12 - Landing(last)) + 1
       /\ position[Landing(last)] = 0
       /\ position[12 - Landing(last)] = 0

\* C2, witness: a capture by a move that also sowed into the store and into
\* the captured field.
C2_Witness ==
    /\ JustMoved /\ LandsOnEmptyOwnField(last)
    /\ Sown(last, Landing(last)) = 1
    /\ Sown(last, 12 - Landing(last)) = 1
    /\ Sown(last, OwnStore(last.player)) = 1
    /\ last.position[12 - Landing(last)] > 0
    /\ position[OwnStore(last.player)] =
          last.position[OwnStore(last.player)] + last.position[12 - Landing(last)] + 3
    /\ position[12 - Landing(last)] = 0

\* C3: after a valid move the turn stays with the mover exactly when the
\* last stone went to the mover's own store.
C3_ExtraTurn ==
    (JustMoved /\ ValidCall(last))
    => ((turn = last.player) <=> (Landing(last) = OwnStore(last.player)))

\* C3, witness: the computer side ended a move in its store and moves again.
C3_Witness ==
    /\ JustMoved /\ ValidCall(last)
    /\ ~last.player
    /\ Landing(last) = COMPUTER_SCORE
    /\ turn = last.player

(***************************************************************************)
(* The search, against a minimax without a window.                         *)
(***************************************************************************)
NonEmpty(b, player) == {f \in OwnFields(player) : b[f] > 0}
Lowest(S) == CHOOSE f \in S : \A g \in S : f <= g
Least(S) == CHOOSE v \in S : \A u \in S : v <= u
Greatest(S) == CHOOSE v \in S : \A u \in S : u <= v

\* The reference: every move of every node is searched, with the same move
\* engine, terminal checks and handling of the returned turn.
RECURSIVE FullMinimax(_, _, _)
FullMinimax(b, player, depth) ==
    IF Terminal(b) THEN ToInt8(Evaluation(TerminalSweep(b)))
    ELSE IF depth = 0 THEN ToInt8(Evaluation(b))
    ELSE LET children == {move(b, f, player) : f \in NonEmpty(b, player)}
             scores == {FullMinimax(c.position, c.next, depth - 1) : c \in children}
         IN IF player THEN Least(scores) ELSE Greatest(scores)

\* The node a worker's search starts from, and what the search returned.
WorkerNode(w) == move(position, FirstMove(w), turn)

\* C4: with the full window, minimax returns the score of the reference
\* minimax of the same depth: on the board of the game for either side and
\* every depth up to MaxDepth, and in every search a worker has finished.
C4_Pruning ==
    /\ pc = "loop" =>
          \A player \in BOOLEAN, d \in 0 .. MaxDepth :
             minimax(position, player, d, -128, 127) = FullMinimax(position, player, d)
    /\ \A w \in Workers :
          results[w].set =>
             results[w].val =
                FullMinimax(WorkerNode(w).position, WorkerNode(w).next, searchDepth[w])

\* The first move of a node already ends its loop, with moves left.
CutsOff(b, player, depth, alpha, beta) ==
    /\ ~Terminal(b)
    /\ depth > 0
    /\ Cardinality(NonEmpty(b, player)) >= 2
    /\ LET m == move(b, Lowest(NonEmpty(b, player)), player)
           v == minimax(m.position, m.next, depth - 1, alpha, beta)
       IN IF player THEN v <= alpha ELSE v >= beta

\* C4, witness: a worker has finished a search in which the score of the
\* first move narrowed the window and the second move's node was cut off.
C4_Witness ==
    \E w \in Workers :
       /\ results[w].set
       /\ searchDepth[w] >= 2
       /\ LET n == WorkerNode(w)
              d == searchDepth[w]
              S == NonEmpty(n.position, n.next)
          IN /\ ~Terminal(n.position)
             /\ Cardinality(S) >= 2
             /\ LET c1 == move(n.position, Lowest(S), n.next)
                    c2 == move(n.position, Lowest(S \ {Lowest(S)}), n.next)
                    v1 == minimax(c1.position, c1.next, d - 1, -128, 127)
                IN /\ v1 > -128 /\ v1 < 127
                   /\ CutsOff(c2.position, c2.next, d - 1,
                              IF n.next THEN -128 ELSE v1,
                              IF n.next THEN v1 ELSE 127)
             /\ results[w].val = FullMinimax(n.position, n.next, d)

(***************************************************************************)
(* Invalid calls of move, and the root call.                               *)
(***************************************************************************)
\* C5 as stated: a call of move with an empty field, or with a field that
\* is not one of the mover's six, changes neither the board nor the turn.
C5_InvalidMove ==
    (JustMoved /\ ~ValidCall(last))
    => (position = last.position /\ turn = last.player)

\* C6 as stated: no worker hands minimax a depth above the depth that
\* minimaxRoot was called with.
C6_DepthZero ==
    pc \in {"spawn", "join", "scan", "return", "apply"}
    => \A w \in Workers : wstate[w] = "done" => searchDepth[w] <= Agent.depth

\* The score the root call holds for the move of field f.
RootScore(f) == results[IF turn THEN f ELSE f - 7].val

\* C7 as stated: whatever the order the workers ran in, the field that
\* minimaxRoot returns is the lowest non-empty field of the side to move
\* whose score is extremal (lowest for the side of fields 0..5, highest
\* for the other), each score being the one of the reference minimax.
C7_TieBreak ==
    pc = "apply" =>
        LET S == NonEmpty(position, turn)
            scores == {RootScore(f) : f \in S}
            best == IF turn THEN Least(scores) ELSE Greatest(scores)
        IN /\ \A f \in S :
                 RootScore(f) = FullMinimax(move(position, f, turn).position,
                                            move(position, f, turn).next,
                                            ToUInt8(Agent.depth - 1))
           /\ cacheResult = Lowest({f \in S : RootScore(f) = best})

\* C8: no step taken inside minimaxRoot changes the caller's board.
C8_CallerBoard ==
    [][(pc \in {"spawn", "join", "scan", "return"}) => (position' = position)]_vars

\* C8, witness: minimaxRoot is about to return, and the search of a worker
\* swept its copy, which now differs from the caller's board.
C8_Witness ==
    /\ pc = "return"
    /\ \E w \in Workers :
          /\ wstate[w] = "done"
          /\ Terminal(WorkerNode(w).position)
          /\ PositionCopy[w] # WorkerNode(w).position
          /\ PositionCopy[w] # position
    /\ Total(position) = count

\* C9: while the results are scanned and afterwards, every field of the
\* side to move that holds stones has a worker that has ended and stored
\* its score, and no empty field has a worker or a result.
C9_Barrier ==
    pc \in {"scan", "return", "apply"}
    => \A w \in Workers :
          IF position[FirstMove(w)] > 0
          THEN wstate[w] = "done" /\ results[w].ptr /\ results[w].set
          ELSE wstate[w] = "none" /\ ~results[w].ptr

\* C9, witness: the scan runs over the results of two ended workers.
C9_Witness ==
    /\ pc = "scan"
    /\ Cardinality({w \in Workers : wstate[w] = "done" /\ results[w].set}) >= 2
    /\ \E w \in Workers : wstate[w] = "none" /\ ~results[w].ptr

\* C10: when the game is over and the final sweep has run, the twelve
\* playing fields are empty and the two stores hold the stones counted at
\* the start of the game.
C10_SweepTotals ==
    pc = "done"
    => /\ \A f \in PlayerFields \cup ComputerFields : position[f] = 0
       /\ position[PLAYER_SCORE] + position[COMPUTER_SCORE] = count

\* C10, witness: a game of at least one move has ended with the fields of
\* the second side swept into its store.
C10_Witness ==
    /\ pc = "done"
    /\ last.called
    /\ ValidCall(last)
    /\ position[COMPUTER_SCORE] > last.position[COMPUTER_SCORE] + 1
    /\ position[PLAYER_SCORE] > 0
    /\ position[PLAYER_SCORE] + position[COMPUTER_SCORE] = count

(***************************************************************************)
(* The start of a game on a board of more than 127 stones.                 *)
(***************************************************************************)
\* C11 as stated: on a board that Environment::start counted at more than
\* 127 stones no agent is asked for a move, no search is started and no
\* move is played.
C11_ScoreOverflow ==
    count > 127
    => /\ pc \notin {"move", "spawn", "join", "scan", "return", "apply"}
       /\ ~last.called

(***************************************************************************)
(* The sowing of move, against the ring of 13 fields.                      *)
(***************************************************************************)
OpponentStore(player) == IF player THEN COMPUTER_SCORE ELSE PLAYER_SCORE

\* The loop of move on the arguments of the latest call.
SowingOf(l) ==
    Sow([l.position EXCEPT ![l.selection] = 0], l.selection, Stones(l), l.player)

\* C12: a valid move of a field of c stones leaves the opponent's store as
\* it was; its sowing ends with no stone left over on the c-th field of the
\* ring that leaves out the opponent's store, has put one stone on each of
\* the c fields it visited (a field visited n times holds n more, the
\* selected field the n alone), so the board holds the stones it held; and
\* what follows the sowing changes at most the landing field, the field at
\* 12 - landing and the mover's store.
C12_SkipStore ==
    (JustMoved /\ ValidCall(last))
    => LET s == SowingOf(last)
       IN /\ position[OpponentStore(last.player)] =
                last.position[OpponentStore(last.player)]
          /\ s.count = 0
          /\ s.selection = Landing(last)
          /\ \A f \in Fields : s.position[f] = AfterSowing(last, f)
          /\ Total(s.position) = Total(last.position)
          /\ \A f \in Fields \ {Landing(last), 12 - Landing(last),
                                 OwnStore(last.player)} :
                position[f] = s.position[f]

\* C12, witness: a move of more than two laps has been played; it passed
\* the opponent's store, left it as it was and put three stones or more in
\* the mover's store.
C12_Witness ==
    /\ JustMoved /\ ValidCall(last)
    /\ Stones(last) > 26
    /\ PassesOpponentStore(last)
    /\ Sown(last, OwnStore(last.player)) >= 3
    /\ position[OpponentStore(last.player)] = last.position[OpponentStore(last.player)]
    /\ position[OwnStore(last.player)] >=
          last.position[OwnStore(last.player)] + Sown(last, OwnStore(last.player))
    /\ Total(position) = Total(last.position)

\* The latest move took stones by capture: the mover's store holds more
\* than the sowing put there.
Captured(l) ==
    position[OwnStore(l.player)] > AfterSowing(l, OwnStore(l.player))

\* C13 as stated: a valid move captures only if the field its last stone
\* went to held no stone before the move began.
C13_EmptyBefore ==
    (JustMoved /\ ValidCall(last) /\ Captured(last))
    => last.position[Landing(last)] = 0

(***************************************************************************)
(* The terminal checks of minimax.                                         *)
(***************************************************************************)
\* The board a finished worker's search was entered with is the board after
\* its first move; PositionCopy[w] is that board as the search left it.
EnteredTerminal(w) == wstate[w] = "done" /\ Terminal(WorkerNode(w).position)

\* C14 as stated: a search entered with all fields of one side empty leaves
\* a board that holds the stones it held, with the fields of the other
\* side at 0, and returns the difference of the stores of that board.
C14_SearchSweep ==
    \A w \in Workers :
       EnteredTerminal(w) =>
          LET n == WorkerNode(w).position
              b == PositionCopy[w]
          IN /\ Total(b) = Total(n)
             /\ \A f \in (IF PlayerEmpty(n) THEN ComputerFields ELSE PlayerFields) :
                   b[f] = 0
             /\ results[w].val = b[COMPUTER_SCORE] - b[PLAYER_SCORE]

\* The score of a board without search: the difference of the stores, the
\* remaining fields of a side counted in its store when the other side has
\* no stones left.
StaticScore(b) ==
    IF PlayerEmpty(b)
    THEN (b[COMPUTER_SCORE] + SumOver(b, ComputerFields)) - b[PLAYER_SCORE]
    ELSE IF ComputerEmpty(b)
    THEN b[COMPUTER_SCORE] - (b[PLAYER_SCORE] + SumOver(b, PlayerFields))
    ELSE b[COMPUTER_SCORE] - b[PLAYER_SCORE]

\* C15: with depth 0, minimax returns the swept score of a board on which a
\* side has no stones left, and the difference of the stores of any other
\* board, which it leaves as it was: for the board of the game and either
\* side, and for every worker that searched with depth 0.  The opening board
\* scores 0.
C15_TerminalFirst ==
    /\ pc = "loop" =>
          \A player \in BOOLEAN :
             minimax(position, player, 0, -128, 127) = StaticScore(position)
    /\ (pc = "loop" /\ position = OpeningBoard) =>
          \A player \in BOOLEAN : minimax(position, player, 0, -128, 127) = 0
    /\ \A w \in Workers :
          (wstate[w] = "done" /\ searchDepth[w] = 0) =>
             /\ results[w].val = StaticScore(WorkerNode(w).position)
             /\ ~Terminal(WorkerNode(w).position) =>
                   PositionCopy[w] = WorkerNode(w).position

\* C15, witness: a worker has searched with depth 0 a board with an empty
\* side whose swept score is not the difference of its stores.
C15_Witness ==
    \E w \in Workers :
       /\ wstate[w] = "done" /\ searchDepth[w] = 0
       /\ Terminal(WorkerNode(w).position)
       /\ results[w].val = StaticScore(WorkerNode(w).position)
       /\ results[w].val # Evaluation(WorkerNode(w).position)

(***************************************************************************)
(* The boards the threads of minimaxRoot read and write.                   *)
(***************************************************************************)
OwnCopy(a) == a.board = "PositionCopy" /\ a.owner = a.id
SameBoard(a, b) == a.board = b.board /\ a.owner = b.owner
SameThread(a, b) == a.thread = b.thread /\ a.id = b.id

\* C16 as stated: a worker reads and writes no board but its own copy.
C16_Original ==
    \A a \in access : a.thread = "worker" => OwnCopy(a)

\* C16, amended: a worker writes no board but its own copy and reads,
\* besides it, only the caller's board; and a board that a thread writes
\* while minimaxRoot runs is read and written by that thread alone.
C16_Exclusive ==
    /\ \A a \in access :
          a.thread = "worker" => (OwnCopy(a) \/ (a.board = "position" /\ ~a.write))
    /\ \A a, b \in access : (a.write /\ SameBoard(a, b)) => SameThread(a, b)

\* C16, witness: two workers have copied the caller's board, which the
\* thread of minimaxRoot has read as well, and have searched, each on its
\* own copy; the copy of one of them no longer equals the caller's board.
C16_Witness ==
    /\ pc = "return"
    /\ RootRead \in access
    /\ \E w, v \in Workers :
          /\ w # v
          /\ wstate[w] = "done" /\ wstate[v] = "done"
          /\ {WorkerAccess(w, "position", FALSE), WorkerAccess(w, "PositionCopy", TRUE),
              WorkerAccess(v, "position", FALSE), WorkerAccess(v, "PositionCopy", TRUE)}
                \subseteq access
          /\ PositionCopy[w] # position

(***************************************************************************)
(* The scores of a search, in unbounded integers.                          *)
(***************************************************************************)
\* The scores of the boards at which a search of `depth` from b ends.
RECURSIVE LeafScores(_, _, _)
LeafScores(b, player, depth) ==
    IF Terminal(b) \/ depth = 0 THEN {StaticScore(b)}
    ELSE UNION {LeafScores(move(b, f, player).position, move(b, f, player).next,
                           depth - 1) : f \in NonEmpty(b, player)}

\* No move of a search of `depth` from b changes the number of stones on
\* its board, no field passes 127, and no sweep passes 127 in a store.
RECURSIVE TreeKeepsStones(_, _, _)
TreeKeepsStones(b, player, depth) ==
    /\ \A f \in Fields : b[f] <= 127
    /\ IF Terminal(b)
       THEN /\ b[COMPUTER_SCORE] + SumOver(b, ComputerFields) <= 127
            /\ b[PLAYER_SCORE] + SumOver(b, PlayerFields) <= 127
       ELSE depth = 0 \/
            \A f \in NonEmpty(b, player) :
               /\ Total(move(b, f, player).position) = Total(b)
               /\ TreeKeepsStones(move(b, f, player).position,
                                  move(b, f, player).next, depth - 1)

\* C17: on a board counted at no more than 127 stones, a valid move keeps
\* the number of stones and leaves no field above 127; and for every worker
\* that has finished, the same holds of its first move and of every move of
\* its search, the sweep of its board gave the store the exact sum, and the
\* score it stored is the exact score of a board at which its search ended
\* and lies, as all of those, between -127 and 127.
C17_NoWrap ==
    count <= 127 =>
       /\ (JustMoved /\ ValidCall(last) /\ Total(last.position) <= 127) =>
             /\ Total(position) = Total(last.position)
             /\ \A f \in Fields : position[f] <= 127
       /\ \A w \in Workers :
             (pc \in {"spawn", "join", "scan", "return", "apply"} /\ wstate[w] = "done") =>
                LET n == WorkerNode(w)
                    leaves == LeafScores(n.position, n.next, searchDepth[w])
                IN /\ Total(n.position) = Total(position)
                   /\ TreeKeepsStones(n.position, n.next, searchDepth[w])
                   /\ PlayerEmpty(n.position) =>
                         PositionCopy[w][COMPUTER_SCORE] =
                            n.position[COMPUTER_SCORE] + SumOver(n.position, ComputerFields)
                   /\ (~PlayerEmpty(n.position) /\ ComputerEmpty(n.position)) =>
                         PositionCopy[w][PLAYER_SCORE] =
                            n.position[PLAYER_SCORE] + SumOver(n.position, PlayerFields)
                   /\ leaves \subseteq -127 .. 127
                   /\ results[w].val \in leaves

\* C17, witness: on a board of 127 stones a worker's search of two or more
\* moves has returned 127, the score of a swept board.
C17_Witness ==
    /\ count = 127
    /\ pc = "scan"
    /\ \E w \in Workers :
          /\ wstate[w] = "done"
          /\ searchDepth[w] >= 2
          /\ ~Terminal(WorkerNode(w).position)
          /\ results[w].val = 127
          /\ 127 \in LeafScores(WorkerNode(w).position, WorkerNode(w).next,
                                searchDepth[w])

(***************************************************************************)
(* The field minimaxRoot returns.                                          *)
(***************************************************************************)
\* C18 as stated: on a board of at most 127 stones with stones on both
\* sides, minimaxRoot called with a depth of 1 or more has assigned
\* bestIndex, and the field it returns is a field of the side to move that
\* holds stones.
C18_LegalMove ==
    (pc = "apply" /\ count <= 127 /\ Agent.depth >= 1 /\ ~Terminal(position))
    => /\ bestIndex # Unassigned
       /\ cacheResult \in NonEmpty(position, turn)

(***************************************************************************)
(* The end of the game.                                                    *)
(***************************************************************************)
\* An iteration of the game loop that played no move: the input of the
\* human player was turned down (line 304).
RejectedInput == pc = "move" /\ pc' = "loop" /\ ~last'.called

\* An iteration of the game loop that played a valid move.
ValidMovePlayed ==
    /\ pc \in {"move", "apply"} /\ pc' = "loop"
    /\ last'.called /\ ValidCall(last')

====
